---- MODULE Spec2Model ----
(***************************************************************************)
(* Model of Streamlit_3.py, the IMDB movie dashboard.                      *)
(*                                                                         *)
(* The script is re-executed from top to bottom on every widget            *)
(* interaction.  The state is the cached dataset, the widget state kept    *)
(* by the session between runs, and everything the last run computed.      *)
(* One action per widget interaction; each action is the interaction       *)
(* followed by the complete re-run of the script.                          *)
(*                                                                         *)
(* Units: Duration and Rating are held in tenths (2.0 hours = 20,          *)
(* rating 7.5 = 75), the grid of the two float sliders (step = 0.1).       *)
(* Votes are plain integers.  A mean is held as the exact pair             *)
(* <<sum, count>>; its rendering as text is not part of the model.         *)
(***************************************************************************)
EXTENDS Integers, Sequences, FiniteSets

\* ------------------------------------------------------------------ bounds

\* Largest number of rows of a dataset.
MaxRows == 11

\* Number of different starting points in the movie pool a dataset is cut from.
NumOffsets == 2

\* ------------------------------------------------------- program constants

\* n of nlargest(n, 'Votes')
TopN == 10

\* max_value of the rating slider (10.0)
RatingSliderMax == 100

\* step of the votes slider
VotesStep == 1000

\* ---------------------------------------------------------------- dataset

\* The movies a CSV file may hold (Title, Genre, Duration, Rating, Votes).
Pool ==
    << [Title |-> "A", Genre |-> "Drama",  Duration |-> 20, Rating |-> 75, Votes |-> 5000],
       [Title |-> "B", Genre |-> "Comedy", Duration |-> 15, Rating |-> 60, Votes |-> 200],
       [Title |-> "C", Genre |-> "Drama",  Duration |-> 30, Rating |-> 90, Votes |-> 100000],
       [Title |-> "D", Genre |-> "Comedy", Duration |-> 25, Rating |-> 82, Votes |-> 5000],
       [Title |-> "E", Genre |-> "Drama",  Duration |-> 35, Rating |-> 60, Votes |-> 50000] >>

\* A data frame is a sequence of rows; idx is the pandas index label of the
\* row (RangeIndex of read_csv), which boolean indexing carries along.
Row(i, m) ==
    [idx |-> i, Title |-> m.Title, Genre |-> m.Genre,
     Duration |-> m.Duration, Rating |-> m.Rating, Votes |-> m.Votes]

\* The frame read from a CSV file of n rows cut from the pool at offset o.
ReadCsv(n, o) ==
    [i \in 1..n |-> Row(i - 1, Pool[((i + o) % Len(Pool)) + 1])]

Datasets == { ReadCsv(n, o) : n \in 1..MaxRows, o \in 0..(NumOffsets - 1) }

\* ---------------------------------------------------------------- helpers

Range(s) == { s[i] : i \in 1..Len(s) }

SetMax(S) == CHOOSE x \in S : \A y \in S : y <= x

Min2(a, b) == IF a <= b THEN a ELSE b

Max2(a, b) == IF a >= b THEN a ELSE b

\* df['Duration'].max() and df['Votes'].max()
DurationMax(d) == SetMax({ d[i].Duration : i \in 1..Len(d) })

VotesMax(d) == SetMax({ d[i].Votes : i \in 1..Len(d) })

\* sorted(df['Genre'].unique()), as the set of options of the multiselect
genres(d) == { d[i].Genre : i \in 1..Len(d) }

\* ------------------------------------------------------ predefined options

DurationLabels == {"All Durations", "Short (< 2 hrs)", "Medium (2-3 hrs)", "Long (> 3 hrs)"}

RatingLabels ==
    {"Any Rating", "Good (6.0+)", "Very Good (7.0+)", "Excellent (8.0+)", "Outstanding (9.0+)"}

VoteLabels ==
    {"Any number of votes", "Popular (1K+ votes)", "Very Popular (10K+ votes)",
     "Blockbuster (50K+ votes)", "Super Hit (100K+ votes)"}

\* duration_options[label], built from the data frame of the run
duration_options(d, label) ==
    CASE label = "All Durations"    -> <<0, DurationMax(d)>>
      [] label = "Short (< 2 hrs)"  -> <<0, 20>>
      [] label = "Medium (2-3 hrs)" -> <<20, 30>>
      [] label = "Long (> 3 hrs)"   -> <<30, DurationMax(d)>>

rating_options(label) ==
    CASE label = "Any Rating"         -> 0
      [] label = "Good (6.0+)"        -> 60
      [] label = "Very Good (7.0+)"   -> 70
      [] label = "Excellent (8.0+)"   -> 80
      [] label = "Outstanding (9.0+)" -> 90

vote_options(label) ==
    CASE label = "Any number of votes"       -> 0
      [] label = "Popular (1K+ votes)"       -> 1000
      [] label = "Very Popular (10K+ votes)" -> 10000
      [] label = "Blockbuster (50K+ votes)"  -> 50000
      [] label = "Super Hit (100K+ votes)"   -> 100000

\* ---------------------------------------------------------------- sliders
\* st.slider keeps min_value <= value <= max_value by adjusting: a reversed
\* range is swapped and the bounds are widened to take the value in.  A
\* slider without a key is identified by its arguments, so a run that passes
\* another `value` gets a fresh slider showing that value, and a run that
\* passes the same arguments gets the position the user left.

\* The position a fresh range slider shows for value=(lo, hi).
RangeSliderInit(v) == IF v[1] > v[2] THEN <<v[2], v[1]>> ELSE v

\* The positions the user can give the duration slider built with `value` v.
DurationSliderLo(d, v) == Min2(0, RangeSliderInit(v)[1])

DurationSliderHi(d, v) == Max2(DurationMax(d), RangeSliderInit(v)[2])

RatingSliderHi(v) == Max2(RatingSliderMax, v)

VotesSliderHi(d, v) == Max2(VotesMax(d), v)

\* What the duration slider returns in a run: the kept position when the
\* slider is the one of the previous run, else the initial position.
DurationSliderValue(prevInit, init, kept) ==
    IF prevInit = init THEN kept ELSE RangeSliderInit(init)

SliderValue(prevInit, init, kept) ==
    IF prevInit = init THEN kept ELSE init

\* ------------------------------------------------------------- resolution

\* ResolveDuration overriding only when both handles were moved.
ResolveDurationBothMoved(pre, custom) ==
    IF custom[1] # pre[1] /\ custom[2] # pre[2] THEN custom ELSE pre

\* lines 59-61
ResolveDuration(pre, custom) ==
    IF custom[1] # pre[1] \/ custom[2] # pre[2] THEN custom ELSE pre

\* ResolveRating letting the slider only raise the threshold of the option.
ResolveRatingOnlyRaise(pre, custom) == IF custom > pre THEN custom ELSE pre

\* lines 92-94
ResolveRating(pre, custom) == IF custom # pre THEN custom ELSE pre

\* lines 125-127
ResolveVotes(pre, custom) == IF custom # pre THEN custom ELSE pre

\* ----------------------------------------------------------------- filter

\* GenreStage collecting the rows genre by genre.
GenreStagePerGenre(f, G) ==
    IF G # {}
    THEN SelectSeq(f, LAMBDA r : r.Genre \in G /\ r.Genre = "Comedy")
            \o SelectSeq(f, LAMBDA r : r.Genre \in G /\ r.Genre # "Comedy")
    ELSE f

\* GenreStage without the test for an empty selection.
GenreStageUnguarded(f, G) == SelectSeq(f, LAMBDA r : r.Genre \in G)

\* lines 132-133
GenreStage(f, G) ==
    IF G # {} THEN SelectSeq(f, LAMBDA r : r.Genre \in G) ELSE f

\* MaskStage with an exclusive upper duration bound.
MaskStageExclusiveMax(f, lo, hi, mr, mv) ==
    SelectSeq(f, LAMBDA r : /\ r.Duration >= lo
                            /\ r.Duration < hi
                            /\ r.Rating >= mr
                            /\ r.Votes >= mv)

\* MaskStage with the rating comparison turned round.
MaskStageRatingReversed(f, lo, hi, mr, mv) ==
    SelectSeq(f, LAMBDA r : /\ r.Duration >= lo
                            /\ r.Duration <= hi
                            /\ r.Rating <= mr
                            /\ r.Votes >= mv)

\* lines 135-140
MaskStage(f, lo, hi, mr, mv) ==
    SelectSeq(f, LAMBDA r : /\ r.Duration >= lo
                            /\ r.Duration <= hi
                            /\ r.Rating >= mr
                            /\ r.Votes >= mv)

\* lines 129-140: df.copy(), then the two stages
ApplyFilters(d, G, lo, hi, mr, mv) == MaskStage(GenreStage(d, G), lo, hi, mr, mv)

\* ---------------------------------------------------------------- display

RECURSIVE SumOf(_, _)
\* the sum a column mean is taken from; col is "Rating", "Duration" or "Votes"
SumOf(f, col) ==
    IF f = <<>> THEN 0
    ELSE (CASE col = "Rating"   -> Head(f).Rating
            [] col = "Duration" -> Head(f).Duration
            [] col = "Votes"    -> Head(f).Votes) + SumOf(Tail(f), col)

\* Series.mean(), as the exact fraction <<sum, count>>
Mean(f, col) == <<SumOf(f, col), Len(f)>>

\* lines 149-153: the four metric cards
Metrics(f) ==
    [total    |-> Len(f),
     rating   |-> Mean(f, "Rating"),
     duration |-> Mean(f, "Duration"),
     votes    |-> Mean(f, "Votes")]

\* FirstLargest with keep='last': among equal Votes the last in frame order.
LastLargest(f) ==
    CHOOSE i \in 1..Len(f) :
        /\ \A j \in 1..Len(f) : f[j].Votes <= f[i].Votes
        /\ \A j \in (i + 1)..Len(f) : f[j].Votes < f[i].Votes

\* The position in f of the row nlargest takes next: the largest Votes, and
\* among equal Votes the first in frame order (keep='first').
FirstLargest(f) ==
    CHOOSE i \in 1..Len(f) :
        /\ \A j \in 1..Len(f) : f[j].Votes <= f[i].Votes
        /\ \A j \in 1..(i - 1) : f[j].Votes < f[i].Votes

RemoveAt(f, i) == SubSeq(f, 1, i - 1) \o SubSeq(f, i + 1, Len(f))

RECURSIVE nlargest(_, _)
\* line 201: filtered_df.nlargest(n, 'Votes')
nlargest(n, f) ==
    IF n = 0 \/ f = <<>> THEN <<>>
    ELSE <<f[FirstLargest(f)]>> \o nlargest(n - 1, RemoveAt(f, FirstLargest(f)))

\* line 215: to_csv(index=False), the rows without their index label
to_csv(f) ==
    [i \in 1..Len(f) |->
        [Title |-> f[i].Title, Genre |-> f[i].Genre, Duration |-> f[i].Duration,
         Rating |-> f[i].Rating, Votes |-> f[i].Votes]]

\* NoMatches with the test off by one.
NoMatchesOffByOne(f) == Len(f) <= 1

\* line 145: the branch that shows the warning
NoMatches(f) == Len(f) = 0

\* What a run puts on the page below the sub-header (lines 145-218).
Elements(f) ==
    IF NoMatches(f) THEN {"warning"}
    ELSE {"metrics", "dataframe", "histogram", "scatter", "top_movies", "download_button"}

\* load_data() under st.cache_data: every run gets its own copy of the
\* cached frame, and nothing a run does reaches the cached one.
load_data(c) == c

\* CacheAfterRun when the run filters the cached frame itself.
CacheFilteredInPlace(c, f) == f

\* lines 130-140: the run filters its own copy (df.copy(), and boolean
\* indexing builds new frames), so the cached frame stays as loaded.
CacheAfterRun(c, f) == c

\* ------------------------------------------------------------------ state

VARIABLES
    cache,             \* the frame st.cache_data holds for load_data
    df,                \* the frame of the last run
    selected_genres,   \* multiselect
    selected_duration, \* radio
    custom_min,        \* range slider, lower handle
    custom_max,        \* range slider, upper handle
    selected_rating,   \* radio
    custom_rating,     \* slider
    selected_votes,    \* radio
    custom_votes,      \* slider
    min_duration, max_duration, min_rating, min_votes,   \* resolved criteria
    filtered_df,       \* the matching rows
    elements,          \* what the run rendered below the sub-header
    metrics,           \* <<the four metrics>>, or <<>> when not computed
    top_movies,        \* the top-10 frame, or <<>> when not computed
    csv                \* the exported rows, or <<>> when not computed

widgets ==
    <<selected_genres, selected_duration, custom_min, custom_max,
      selected_rating, custom_rating, selected_votes, custom_votes>>

criteria == <<min_duration, max_duration, min_rating, min_votes>>

outputs == <<filtered_df, elements, metrics, top_movies, csv>>

vars == <<cache, df, widgets, criteria, outputs>>

\* Positions the model moves the sliders to (besides the initial ones).
DurationPositions == { <<0, 15>> }

RatingPositions == { 75 }

VotesPositions == { 5000 }

\* One execution of the script with the widgets returning g (genres), sd and
\* cd (duration radio and slider), sr and cr (rating), sv and cv (votes).
Run(g, sd, cd, sr, cr, sv, cv) ==
    LET d    == load_data(cache)
        dur  == ResolveDuration(duration_options(d, sd), cd)
        mr   == ResolveRating(rating_options(sr), cr)
        mv   == ResolveVotes(vote_options(sv), cv)
        f    == ApplyFilters(d, g, dur[1], dur[2], mr, mv)
    IN  /\ df' = d
        /\ selected_genres' = g
        /\ selected_duration' = sd
        /\ custom_min' = cd[1]
        /\ custom_max' = cd[2]
        /\ selected_rating' = sr
        /\ custom_rating' = cr
        /\ selected_votes' = sv
        /\ custom_votes' = cv
        /\ min_duration' = dur[1]
        /\ max_duration' = dur[2]
        /\ min_rating' = mr
        /\ min_votes' = mv
        /\ filtered_df' = f
        /\ elements' = Elements(f)
        /\ metrics' = IF NoMatches(f) THEN <<>> ELSE <<Metrics(f)>>
        /\ top_movies' = IF NoMatches(f) THEN <<>> ELSE nlargest(TopN, f)
        /\ csv' = IF NoMatches(f) THEN <<>> ELSE to_csv(f)
        /\ cache' = CacheAfterRun(cache, f)

\* The first run of a session: every widget at its default.
FirstRun(d) ==
    LET dur == RangeSliderInit(duration_options(d, "All Durations"))
        f   == ApplyFilters(d, {}, dur[1], dur[2], 0, 0)
    IN  /\ cache = d
        /\ df = d
        /\ selected_genres = {}
        /\ selected_duration = "All Durations"
        /\ custom_min = dur[1]
        /\ custom_max = dur[2]
        /\ selected_rating = "Any Rating"
        /\ custom_rating = rating_options("Any Rating")
        /\ selected_votes = "Any number of votes"
        /\ custom_votes = vote_options("Any number of votes")
        /\ min_duration = dur[1]
        /\ max_duration = dur[2]
        /\ min_rating = 0
        /\ min_votes = 0
        /\ filtered_df = f
        /\ elements = Elements(f)
        /\ metrics = (IF NoMatches(f) THEN <<>> ELSE <<Metrics(f)>>)
        /\ top_movies = (IF NoMatches(f) THEN <<>> ELSE nlargest(TopN, f))
        /\ csv = (IF NoMatches(f) THEN <<>> ELSE to_csv(f))

Init == \E d \in Datasets : FirstRun(d)

\* ---------------------------------------------------------------- actions

SelectGenres ==
    \E g \in SUBSET genres(df) :
        /\ g # selected_genres
        /\ Run(g, selected_duration, <<custom_min, custom_max>>,
               selected_rating, custom_rating, selected_votes, custom_votes)

SelectDuration ==
    \E sd \in DurationLabels :
        /\ sd # selected_duration
        /\ Run(selected_genres, sd,
               DurationSliderValue(duration_options(df, selected_duration),
                                   duration_options(df, sd),
                                   <<custom_min, custom_max>>),
               selected_rating, custom_rating, selected_votes, custom_votes)

MoveDurationSlider ==
    \E cd \in DurationPositions :
        /\ cd # <<custom_min, custom_max>>
        /\ DurationSliderLo(df, duration_options(df, selected_duration)) <= cd[1]
        /\ cd[2] <= DurationSliderHi(df, duration_options(df, selected_duration))
        /\ Run(selected_genres, selected_duration, cd,
               selected_rating, custom_rating, selected_votes, custom_votes)

SelectRating ==
    \E sr \in RatingLabels :
        /\ sr # selected_rating
        /\ Run(selected_genres, selected_duration, <<custom_min, custom_max>>,
               sr, SliderValue(rating_options(selected_rating), rating_options(sr),
                               custom_rating),
               selected_votes, custom_votes)

MoveRatingSlider ==
    \E cr \in RatingPositions :
        /\ cr # custom_rating
        /\ cr <= RatingSliderHi(rating_options(selected_rating))
        /\ Run(selected_genres, selected_duration, <<custom_min, custom_max>>,
               selected_rating, cr, selected_votes, custom_votes)

SelectVotes ==
    \E sv \in VoteLabels :
        /\ sv # selected_votes
        /\ Run(selected_genres, selected_duration, <<custom_min, custom_max>>,
               selected_rating, custom_rating,
               sv, SliderValue(vote_options(selected_votes), vote_options(sv),
                               custom_votes))

MoveVotesSlider ==
    \E cv \in VotesPositions :
        /\ cv # custom_votes
        /\ cv % VotesStep = 0
        /\ cv <= VotesSliderHi(df, vote_options(selected_votes))
        /\ Run(selected_genres, selected_duration, <<custom_min, custom_max>>,
               selected_rating, custom_rating, selected_votes, cv)

Next ==
    \/ SelectGenres
    \/ SelectDuration
    \/ MoveDurationSlider
    \/ SelectRating
    \/ MoveRatingSlider
    \/ SelectVotes
    \/ MoveVotesSlider

Spec == Init /\ [][Next]_vars

\* ----------------------------------------------------------------- claims

\* The filter predicate as the specification words it.
Passes(r, G, lo, hi, mr, mv) ==
    /\ (G = {} \/ r.Genre \in G)
    /\ lo <= r.Duration
    /\ r.Duration <= hi
    /\ r.Rating >= mr
    /\ r.Votes >= mv

\* C1: a row of the dataset is in the filtered result if and only if its
\* genre is selected (or no genre is selected), its Duration lies in the
\* closed range [min_duration, max_duration], its Rating is at least
\* min_rating and its Votes are at least min_votes.
C1_FilterIff ==
    \A i \in 1..Len(df) :
        (df[i] \in Range(filtered_df))
            <=> Passes(df[i], selected_genres, min_duration, max_duration,
                       min_rating, min_votes)

\* C1 witness: a genre is selected, a row on the upper duration bound and a
\* row on the lower one are kept, and some row is dropped.
C1_Witness ==
    /\ selected_genres # {}
    /\ \E i \in 1..Len(filtered_df) : filtered_df[i].Duration = max_duration
    /\ \E i \in 1..Len(filtered_df) : filtered_df[i].Duration = min_duration
    /\ min_duration > 0
    /\ Len(filtered_df) < Len(df)

\* C2: the filtered result is a subsequence of the dataset: each of its rows
\* is the dataset's row with the same index label, no row is taken twice and
\* the rows come in the dataset's order.
C2_Subsequence ==
    /\ \A k \in 1..Len(filtered_df) :
          /\ filtered_df[k].idx + 1 \in 1..Len(df)
          /\ df[filtered_df[k].idx + 1] = filtered_df[k]
    /\ \A k \in 1..Len(filtered_df) : \A l \in 1..Len(filtered_df) :
          k < l => filtered_df[k].idx < filtered_df[l].idx

\* C2 witness: both genres are selected and the result keeps several rows of
\* both while dropping others.
C2_Witness ==
    /\ Cardinality(selected_genres) = 2
    /\ Len(filtered_df) >= 3
    /\ Len(filtered_df) < Len(df)
    /\ Cardinality({ filtered_df[k].Genre : k \in 1..Len(filtered_df) }) = 2

\* C3: the value every slider is initialised with and the resolved criteria
\* lie within the bounds derived from the dataset:
\* 0 <= min_duration <= max_duration <= max Duration, 0 <= min_rating <= 10,
\* 0 <= min_votes <= max Votes.
C3_InDomain ==
    LET dinit == duration_options(df, selected_duration)
        rinit == rating_options(selected_rating)
        vinit == vote_options(selected_votes)
    IN  /\ 0 <= dinit[1] /\ dinit[1] <= dinit[2] /\ dinit[2] <= DurationMax(df)
        /\ 0 <= rinit /\ rinit <= RatingSliderMax
        /\ 0 <= vinit /\ vinit <= VotesMax(df)
        /\ 0 <= min_duration /\ min_duration <= max_duration
        /\ max_duration <= DurationMax(df)
        /\ 0 <= min_rating /\ min_rating <= RatingSliderMax
        /\ 0 <= min_votes /\ min_votes <= VotesMax(df)

\* C4: in each of the dimensions duration, rating and votes the resolved
\* criteria is the custom value when it differs from the value of the
\* selected predefined option, and the option's value otherwise; it is
\* decided by the widgets of that dimension alone.
C4_Precedence ==
    LET pre == duration_options(df, selected_duration)
    IN  /\ <<min_duration, max_duration>> =
              (IF <<custom_min, custom_max>> # pre
               THEN <<custom_min, custom_max>> ELSE pre)
        /\ min_rating =
              (IF custom_rating # rating_options(selected_rating)
               THEN custom_rating ELSE rating_options(selected_rating))
        /\ min_votes =
              (IF custom_votes # vote_options(selected_votes)
               THEN custom_votes ELSE vote_options(selected_votes))

\* C4 witness: the duration slider differs from the selected option in its
\* upper handle only, the votes slider differs from its option and the
\* rating slider does not.
C4_Witness ==
    /\ custom_min = duration_options(df, selected_duration)[1]
    /\ custom_max # duration_options(df, selected_duration)[2]
    /\ custom_votes # vote_options(selected_votes)
    /\ custom_rating = rating_options(selected_rating)
    /\ selected_rating # "Any Rating"

\* Row a ranks before row b in the top list: more Votes, or equal Votes and
\* earlier in the dataset.
RanksBefore(a, b) ==
    a.Votes > b.Votes \/ (a.Votes = b.Votes /\ a.idx < b.idx)

\* C5: the top list of a non-empty filtered subset S holds the first
\* min(10, |S|) rows of S in descending order of Votes, rows of equal Votes
\* in dataset order; with fewer than 10 rows it holds every row of S once.
C5_TopTen ==
    filtered_df # <<>> =>
        /\ Len(top_movies) = Min2(TopN, Len(filtered_df))
        /\ Range(top_movies) \subseteq Range(filtered_df)
        /\ \A k \in 1..Len(top_movies) : \A l \in 1..Len(top_movies) :
              k < l => RanksBefore(top_movies[k], top_movies[l])
        /\ \A r \in Range(filtered_df) \ Range(top_movies) :
              \A k \in 1..Len(top_movies) : RanksBefore(top_movies[k], r)
        /\ (Len(filtered_df) < TopN => Range(top_movies) = Range(filtered_df))

\* C5 witness: more than 10 rows match, rows with equal Votes are in the top
\* list, and a row is left out that ties with the last row taken.
C5_Witness ==
    /\ Len(filtered_df) > TopN
    /\ Len(top_movies) = TopN
    /\ \E k \in 1..(TopN - 1) : top_movies[k].Votes = top_movies[k + 1].Votes
    /\ \E r \in Range(filtered_df) \ Range(top_movies) :
          r.Votes = top_movies[TopN].Votes

\* C6: a run with an empty filtered subset shows the "no matches" message
\* and computes no aggregate, top list or export; a run with a non-empty
\* subset computes the four aggregates (count = size of the subset) and does
\* not show the message; every run does exactly one of the two.
C6_EmptyIsNotAnError ==
    /\ filtered_df = <<>> =>
          /\ elements = {"warning"}
          /\ metrics = <<>> /\ top_movies = <<>> /\ csv = <<>>
    /\ filtered_df # <<>> =>
          /\ "warning" \notin elements
          /\ {"metrics", "dataframe", "top_movies", "download_button"} \subseteq elements
          /\ Len(metrics) = 1
          /\ metrics[1].total = Len(filtered_df)
          /\ metrics[1].rating[2] = Len(filtered_df)
          /\ metrics[1].duration[2] = Len(filtered_df)
          /\ metrics[1].votes[2] = Len(filtered_df)
          /\ Len(top_movies) >= 1
          /\ Len(csv) = Len(filtered_df)
    /\ ("warning" \in elements) # ("metrics" \in elements)

\* C6 witness: criteria set by the user match no row of a dataset with
\* several rows, and the run shows the message.
C6_Witness ==
    /\ Len(df) >= 2
    /\ filtered_df = <<>>
    /\ "warning" \in elements
    /\ selected_rating # "Any Rating"

\* Values a single bound is widened to.
DurationGrid == { 0, 10, 15, 20, 25, 30, 35, 40 }

RatingGrid == { 0, 60, 70, 75, 80, 90 }

VotesGrid == { 0, 200, 1000, 5000, 10000, 50000, 100000 }

\* C7: widening one bound (lower min_duration, higher max_duration, lower
\* min_rating or lower min_votes) with everything else equal keeps every
\* row of the result.
C7_Monotone ==
    /\ \A v \in DurationGrid :
          /\ v <= min_duration =>
                Range(filtered_df) \subseteq
                    Range(ApplyFilters(df, selected_genres, v, max_duration,
                                       min_rating, min_votes))
          /\ v >= max_duration =>
                Range(filtered_df) \subseteq
                    Range(ApplyFilters(df, selected_genres, min_duration, v,
                                       min_rating, min_votes))
    /\ \A v \in RatingGrid :
          v <= min_rating =>
              Range(filtered_df) \subseteq
                  Range(ApplyFilters(df, selected_genres, min_duration, max_duration,
                                     v, min_votes))
    /\ \A v \in VotesGrid :
          v <= min_votes =>
              Range(filtered_df) \subseteq
                  Range(ApplyFilters(df, selected_genres, min_duration, max_duration,
                                     min_rating, v))

\* C7 witness: a non-empty result that a lower min_rating makes strictly
\* larger and a higher max_duration makes strictly larger.
C7_Witness ==
    /\ filtered_df # <<>>
    /\ \E v \in RatingGrid :
          /\ v < min_rating
          /\ Len(ApplyFilters(df, selected_genres, min_duration, max_duration,
                              v, min_votes)) > Len(filtered_df)
    /\ \E v \in DurationGrid :
          /\ v > max_duration
          /\ Len(ApplyFilters(df, selected_genres, min_duration, v,
                              min_rating, min_votes)) > Len(filtered_df)

\* C8: with the duration range, min_rating and min_votes fixed, an empty
\* genre selection gives the same rows in the same order as the selection of
\* every genre of the dataset.
C8_EmptyIsAllGenres ==
    /\ ApplyFilters(df, {}, min_duration, max_duration, min_rating, min_votes)
          = ApplyFilters(df, genres(df), min_duration, max_duration,
                         min_rating, min_votes)
    /\ selected_genres = {} =>
          filtered_df = ApplyFilters(df, genres(df), min_duration, max_duration,
                                     min_rating, min_votes)
    /\ selected_genres = genres(df) =>
          filtered_df = ApplyFilters(df, {}, min_duration, max_duration,
                                     min_rating, min_votes)

\* C8 witness: no genre is selected in a dataset of two genres and the other
\* criteria keep some rows and drop others.
C8_Witness ==
    /\ selected_genres = {}
    /\ Cardinality(genres(df)) = 2
    /\ filtered_df # <<>>
    /\ Len(filtered_df) < Len(df)

\* C9: no interaction changes the loaded dataset, and the filtered result of
\* a run is the filter of the dataset as loaded under the criteria of that
\* run, whatever the runs before it were.
C9_DatasetNeverMutated ==
    [][ /\ cache' = cache
        /\ df' = cache
        /\ filtered_df' = ApplyFilters(cache, selected_genres', min_duration',
                                       max_duration', min_rating', min_votes')
      ]_vars

\* C9 witness: after interactions on three widgets the result is a proper
\* part of the dataset, which is still the loaded one.
C9_Witness ==
    /\ selected_genres # {}
    /\ selected_votes # "Any number of votes"
    /\ custom_rating # rating_options(selected_rating)
    /\ filtered_df # <<>>
    /\ Len(filtered_df) < Len(df)
    /\ df = cache

\* C10: after resolution the effective criteria of every dimension is the
\* value of the custom control, whatever predefined option is selected.
C10_EffectiveIsCustom ==
    /\ min_duration = custom_min
    /\ max_duration = custom_max
    /\ min_rating = custom_rating
    /\ min_votes = custom_votes

\* C10 witness: the rating slider was moved below the selected option, the
\* votes slider stands on the value of a selected option other than the
\* default, and the duration slider was moved.
C10_Witness ==
    /\ selected_rating = "Excellent (8.0+)"
    /\ custom_rating = 75
    /\ selected_votes # "Any number of votes"
    /\ custom_votes = vote_options(selected_votes)
    /\ <<custom_min, custom_max>> # duration_options(df, selected_duration)

====
